---- MODULE Spec2Model ----
(***************************************************************************)
(* A model of the caption-timing and video-composition code of             *)
(* XTTS_FastAPI: src/ffmpeg.py (caption track, filter graph, orchestrator), *)
(* src/xtts.py (voice generation) and src/main.py (the HTTP handler).       *)
(*                                                                         *)
(* Three specifications share the module:                                  *)
(*   SpecTime  _format_srt_time applied to bounded time values             *)
(*   SpecAuto  _generate_auto_subtitles applied to bounded texts/durations *)
(*   Spec      requests running generate_voice / create_video_with_audio   *)
(*             against one shared file system and one wall clock           *)
(***************************************************************************)
EXTENDS Integers, Sequences, FiniteSets, TLC

VARIABLES
    \* ---- SpecTime: one time value through format / parse / format
    seconds,      \* the float handed to _format_srt_time
    stage,        \* "in" | "formatted" | "parsed" | "reformatted"
    rendered,     \* the clock string _format_srt_time returned
    readBack,     \* the rendered clock parsed back to a float
    rendered2,    \* _format_srt_time of readBack
    \* ---- SpecAuto: one call of _generate_auto_subtitles
    autoText,     \* the narration text (a sequence of characters)
    autoDur,      \* audio_duration (a float)
    autoOut,      \* the outcome: what it raised, the SRT entries it wrote
    \* ---- Spec: the orchestrator
    pc,           \* per request: position in the handler
    req,          \* per request: the arguments of the call
    loc,          \* per request: the locals of create_video_with_audio
    err,          \* per request: the exception that ended it, or NoErr
    audioFile,    \* content of AUDIO_FILE ("final.wav"), or Absent
    srtFiles,     \* timestamp -> content of outputs/subtitles_<ts>.srt, or Absent
    outFiles,     \* timestamp -> writer of outputs/final_<ts>.mp4, or Absent
    videoDir,     \* "missing" or the set of file names in VIDEO_DIR
    now,          \* int(time.time())
    sameLoop,     \* TRUE: the HTTP requests share one event loop (one worker)
    hist          \* per request: what it observed (for the properties)

timeVars == <<seconds, stage, rendered, readBack, rendered2>>
autoVars == <<autoText, autoDur, autoOut>>
orchVars == <<pc, req, loc, err, audioFile, srtFiles, outFiles, videoDir, now,
              sameLoop, hist>>
vars == <<timeVars, autoVars, orchVars>>

(***************************************************************************)
(* Floats.  Python floats are binary floating point, round to nearest,     *)
(* ties to even.  A float is modelled by an integer count of 2^-FloatBits  *)
(* seconds; the significand has FloatBits bits, so counts below Unit       *)
(* (values below 1.0) are all representable, those in [1,2) are the even   *)
(* counts, those in [2,4) the multiples of 4, and so on.  A double has 53  *)
(* bits; the narrower significand keeps every product inside TLC's         *)
(* integers and keeps the rounding behaviour (what is representable, which *)
(* way a quotient or product rounds) that the properties depend on.  Below *)
(* 0.5 the spacing stays at one count, so there the model rounds more      *)
(* coarsely than a float does.                                             *)
(***************************************************************************)
FloatBits == 16

RECURSIVE Pow2(_)
Pow2(k) == IF k = 0 THEN 1 ELSE 2 * Pow2(k - 1)

Unit == Pow2(FloatBits)          \* the count that stands for 1.0

\* distance between neighbouring floats at magnitude n
RECURSIVE Spacing(_)
Spacing(n) == IF n < Unit THEN 1 ELSE 2 * Spacing(n \div 2)

\* the float nearest to base + num/den counts (ties to even)
RoundFloat(base, num, den) ==
    LET whole == base + (num \div den)
        r     == num % den
        g     == Spacing(whole)
        q     == whole \div g
        twice == 2 * ((whole % g) * den + r)
    IN  IF twice < g * den THEN q * g
        ELSE IF twice > g * den THEN (q + 1) * g
        ELSE IF q % 2 = 0 THEN q * g ELSE (q + 1) * g

FloatOfInt(i)  == i * Unit                    \* float(i), exact for small i
FDivInt(x, n)  == RoundFloat(0, x, n)         \* x / n      (n an int)
FMulInt(i, x)  == RoundFloat(0, i * x, 1)     \* i * x      (i an int)
FFloorDiv(x, n) == x \div (n * Unit)          \* int(x // n)
FMod(x, n)     == x % (n * Unit)              \* x % n, exact
FTrunc(x)      == x \div Unit                 \* int(x), x >= 0

(***************************************************************************)
(* _format_srt_time (src/ffmpeg.py:53-59).  The clock string               *)
(* "HH:MM:SS,mmm" is the record of its four numbers.                       *)
(***************************************************************************)
MillisPerSecond == 1000
SecondsPerMinute == 60
SecondsPerHour == 3600

_format_srt_time(x) ==
    [hh  |-> FFloorDiv(x, SecondsPerHour),
     mm  |-> FFloorDiv(FMod(x, SecondsPerHour), SecondsPerMinute),
     ss  |-> FTrunc(FMod(x, SecondsPerMinute)),
     mmm |-> FTrunc(FMulInt(MillisPerSecond, FMod(x, 1)))]

\* the clock string read as a whole number of milliseconds
ClockMillis(c) ==
    ((c.hh * SecondsPerMinute + c.mm) * SecondsPerMinute + c.ss) * MillisPerSecond
        + c.mmm

\* the inverse parser of the clock representation: the float nearest to the
\* time the string denotes
ParseSrtTime(c) ==
    RoundFloat(FloatOfInt((c.hh * SecondsPerMinute + c.mm) * SecondsPerMinute + c.ss),
               c.mmm * Unit, MillisPerSecond)

\* float("<whole>.<frac>") for a decimal with frac/den as its fraction
FloatOfDecimal(whole, frac, den) == RoundFloat(FloatOfInt(whole), frac * Unit, den)

(***************************************************************************)
(* str.split(): the maximal runs of non-whitespace characters, in order.   *)
(* A text is a sequence of characters; a token is a sequence of characters.*)
(***************************************************************************)
Space == " "
Chars == {"a", Space}

RECURSIVE SplitFrom(_, _, _)
SplitFrom(text, i, cur) ==
    IF i > Len(text)
    THEN IF cur = <<>> THEN <<>> ELSE <<cur>>
    ELSE IF text[i] = Space
         THEN IF cur = <<>> THEN SplitFrom(text, i + 1, <<>>)
              ELSE <<cur>> \o SplitFrom(text, i + 1, <<>>)
         ELSE SplitFrom(text, i + 1, Append(cur, text[i]))

Split(text) == SplitFrom(text, 1, <<>>)

(***************************************************************************)
(* _generate_auto_subtitles (src/ffmpeg.py:90-117): the SRT entries it     *)
(* writes, one record per "index / start --> end / text" block.            *)
(***************************************************************************)
AutoWordsUnguarded(text) == Split(text)

AutoWords(text) ==
    LET words == Split(text) IN IF words = <<>> THEN << <<>> >> ELSE words

AutoEntry(words, time_per_word, i) ==
    [index |-> i + 1,
     start |-> _format_srt_time(FMulInt(i, time_per_word)),
     end   |-> _format_srt_time(FMulInt(i + 1, time_per_word)),
     text  |-> words[i + 1]]

AutoSubtitlesExtraSlot(text, audio_duration) ==
    LET words == AutoWords(text)
        time_per_word == FDivInt(audio_duration, Len(words) + 1)
    IN  [raised |-> "",
         cues |-> [k \in 1..Len(words) |-> AutoEntry(words, time_per_word, k - 1)]]

_generate_auto_subtitles(text, audio_duration) ==
    LET words == AutoWords(text)
    IN  IF Len(words) = 0
        THEN [raised |-> "ZeroDivisionError", cues |-> <<>>]
        ELSE LET time_per_word == FDivInt(audio_duration, Len(words))
             IN  [raised |-> "",
                  cues |-> [k \in 1..Len(words) |->
                               AutoEntry(words, time_per_word, k - 1)]]

(***************************************************************************)
(* Inputs of the two function specifications.                              *)
(***************************************************************************)
SubMs == 2             \* time inputs are decimals on a grid of 1/SubMs ms
MaxTextLen == 5        \* longest narration text, in characters
MaxDurSeconds == 2     \* audio durations range over [0, MaxDurSeconds + 1)

\* from 1.0 up, where the modelled floats have their full significand
WholeSeconds == {1, 2, 59, 3599, 3661}
TimeInputs ==
    {FloatOfDecimal(w, k, MillisPerSecond * SubMs) :
        w \in WholeSeconds, k \in 0..(MillisPerSecond * SubMs - 1)}

RECURSIVE SeqsUpTo(_, _)
SeqsUpTo(S, n) ==
    IF n = 0 THEN {<<>>}
    ELSE LET shorter == SeqsUpTo(S, n - 1)
         IN  shorter \cup {Append(s, c) : s \in shorter, c \in S}

TextInputs == SeqsUpTo(Chars, MaxTextLen)
DurationInputs ==
    {FloatOfDecimal(w, c * 10, MillisPerSecond) : w \in 0..MaxDurSeconds, c \in 0..99}

(***************************************************************************)
(* The two function specifications.                                        *)
(***************************************************************************)
NoClock == [hh |-> 0, mm |-> 0, ss |-> 0, mmm |-> 0]

TimeIdle ==
    /\ seconds = 0 /\ stage = "off" /\ rendered = NoClock
    /\ readBack = 0 /\ rendered2 = NoClock

NotCalled == [called |-> FALSE, raised |-> "", cues |-> <<>>]

AutoIdle == autoText = <<>> /\ autoDur = 0 /\ autoOut = NotCalled

FormatTime ==
    /\ stage = "in"
    /\ rendered' = _format_srt_time(seconds)
    /\ stage' = "formatted"
    /\ UNCHANGED <<seconds, readBack, rendered2, autoVars, orchVars>>

ParseBack ==
    /\ stage = "formatted"
    /\ readBack' = ParseSrtTime(rendered)
    /\ stage' = "parsed"
    /\ UNCHANGED <<seconds, rendered, rendered2, autoVars, orchVars>>

FormatAgain ==
    /\ stage = "parsed"
    /\ rendered2' = _format_srt_time(readBack)
    /\ stage' = "reformatted"
    /\ UNCHANGED <<seconds, rendered, readBack, autoVars, orchVars>>

GenerateAuto ==
    /\ ~autoOut.called
    /\ autoOut' = [called |-> TRUE] @@ _generate_auto_subtitles(autoText, autoDur)
    /\ UNCHANGED <<autoText, autoDur, timeVars, orchVars>>


(***************************************************************************)
(* The orchestrator: values.                                               *)
(***************************************************************************)
Reqs == {"r1", "r2"}
MaxClock == 1          \* the wall clock runs over 0..MaxClock seconds

NoneVal == [some |-> FALSE, val |-> <<>>]       \* Python's None
Some(v) == [some |-> TRUE, val |-> v]

NoErr == [kind |-> "", msg |-> "", at |-> ""]
Exc(kind, msg, at) == [kind |-> kind, msg |-> msg, at |-> at]

AbsentFile == [exists |-> FALSE, owner |-> "none", cues |-> <<>>]
AbsentAudio == [exists |-> FALSE, owner |-> "none", dur |-> 0]
NoCmd == [inputs |-> <<>>, filter_complex |-> <<>>, map |-> <<>>, shortest |-> FALSE,
          output |-> -1]

Finished == {"done", "failed", "rejected"}

\* narration texts: "" and "a aa"
Narration == <<"a", Space, "a", "a">>
HttpTexts == {<<>>, Narration}

Cue(text, start, end) == [text |-> text, start |-> start, end |-> end]
Half == Unit \div 2
\* the docstring's example, then a list whose entry 2 has end <= start, then a
\* list whose starts go backwards
ValidCues  == <<Cue(<<"a">>, 0, Unit + Half), Cue(<<"a", "a">>, Unit + Half, 3 * Unit)>>
BadEndCues == <<Cue(<<"a">>, 0, Unit), Cue(<<"a", "a">>, Unit + Half, Unit)>>
BadOrderCues == <<Cue(<<"a">>, Unit, Unit + Half), Cue(<<"a", "a">>, 0, Half)>>
CueLists == {<<>>, ValidCues, BadEndCues, BadOrderCues}

HttpArgs == {[via |-> "http", text |-> Some(t), subtitles |-> NoneVal] : t \in HttpTexts}
CallArgs ==
    {[via |-> "call", text |-> t, subtitles |-> s] :
        t \in {NoneVal, Some(Narration)},
        s \in {NoneVal} \cup {Some(l) : l \in CueLists}}
Args == HttpArgs \cup CallArgs
NoArgs == [via |-> "none", text |-> NoneVal, subtitles |-> NoneVal]

File(name, ext) == [name |-> name, ext |-> ext]
DirStates ==
    {[exists |-> FALSE, files |-> {}],
     [exists |-> TRUE, files |-> {}],
     [exists |-> TRUE, files |-> {File("notes", ".txt")}],
     [exists |-> TRUE, files |-> {File("clip", ".MOV"), File("notes", ".txt")}]}

TtsDurations == {Unit + Half, 3 * Unit}     \* lengths of generated narration

NoLocals == [video_path |-> File("", ""), audio_duration |-> 0, timestamp |-> -1,
             output_path |-> -1, cmd |-> NoCmd]
NoHist == [picked |-> FALSE, tools |-> FALSE, created |-> FALSE, encoder |-> FALSE,
           probed |-> "none", muxed |-> "none", srtSeen |-> AbsentFile]


(***************************************************************************)
(* The orchestrator: the pure parts of src/ffmpeg.py and src/xtts.py.      *)
(***************************************************************************)
AUDIO_FILE == "final.wav"
VideoExts == {".mp4", ".mov", ".mkv"}
Lower(ext) == IF ext = ".MOV" THEN ".mov" ELSE ext

PickCaseSensitive(dir) ==
    IF ~dir.exists
    THEN {[err |-> Exc("FileNotFoundError", "Video directory does not exist", "pick"),
           path |-> File("", "")]}
    ELSE LET candidates == {f \in dir.files : f.ext \in VideoExts}
         IN  IF candidates = {}
             THEN {[err |-> Exc("FileNotFoundError", "No video files found", "pick"),
                    path |-> File("", "")]}
             ELSE {[err |-> NoErr, path |-> f] : f \in candidates}

\* _pick_random_video: the exception it raises, or one of the files it may choose
_pick_random_video(dir) ==
    IF ~dir.exists
    THEN {[err |-> Exc("FileNotFoundError", "Video directory does not exist", "pick"),
           path |-> File("", "")]}
    ELSE LET candidates == {f \in dir.files : Lower(f.ext) \in VideoExts}
         IN  IF candidates = {}
             THEN {[err |-> Exc("FileNotFoundError", "No video files found", "pick"),
                    path |-> File("", "")]}
             ELSE {[err |-> NoErr, path |-> f] : f \in candidates}

CheckRequestEither(audioExists, text, subtitles) ==
    IF ~audioExists
    THEN Exc("FileNotFoundError", "Audio file not found", "check")
    ELSE IF ~text.some \/ ~subtitles.some
         THEN Exc("ValueError", "Either 'text' or 'subtitles' must be provided", "check")
         ELSE NoErr

\* lines 143-147 of create_video_with_audio: the exception raised, or NoErr
CheckRequest(audioExists, text, subtitles) ==
    IF ~audioExists
    THEN Exc("FileNotFoundError", "Audio file not found", "check")
    ELSE IF ~text.some /\ ~subtitles.some
         THEN Exc("ValueError", "Either 'text' or 'subtitles' must be provided", "check")
         ELSE NoErr

\* _generate_subtitles_from_list: the SRT entries it writes
_generate_subtitles_from_list(subtitles) ==
    [i \in 1..Len(subtitles) |->
        [index |-> i,
         start |-> _format_srt_time(subtitles[i].start),
         end   |-> _format_srt_time(subtitles[i].end),
         text  |-> subtitles[i].text]]

\* lines 158-163: the caption content, or the exception raised before any file
\* is opened (text.split() on None)
CaptionTrack(text, subtitles, audio_duration) ==
    IF subtitles.some /\ subtitles.val # <<>>
    THEN [err |-> NoErr, cues |-> _generate_subtitles_from_list(subtitles.val)]
    ELSE IF ~text.some
         THEN [err |-> Exc("AttributeError", "'NoneType' has no attribute 'split'", "subs"),
               cues |-> <<>>]
         ELSE [err |-> NoErr,
               cues |-> _generate_auto_subtitles(text.val, audio_duration).cues]

Styles == [modern |-> "FontName=Arial Black,FontSize=24", bold |-> "FontName=Impact,FontSize=28",
           minimal |-> "FontName=Helvetica,FontSize=22", gaming |-> "FontName=Arial Black,FontSize=26"]
ForceStyle(subtitle_style) ==
    IF subtitle_style \in DOMAIN Styles THEN Styles[subtitle_style] ELSE Styles["modern"]

Stage(name, arg, file) == [name |-> name, arg |-> arg, file |-> file]

\* lines 220-226: the two chains of filter_complex, each with its input label,
\* its filters in order and its output label
FilterComplex(srt_path, force_style) ==
    << [in |-> "0:v",
        filters |-> << Stage("scale", "1080:1920:force_original_aspect_ratio=increase", -1),
                       Stage("crop", "1080:1920", -1),
                       Stage("eq", "brightness", -1),
                       Stage("format", "yuv420p", -1) >>,
        out |-> "dimmed"],
       [in |-> "dimmed",
        filters |-> << Stage("subtitles", force_style, srt_path) >>,
        out |-> "v"] >>

FfmpegCmdMapsDimmed(video_path, srt_path, output_path, subtitle_style) ==
    [inputs |-> <<video_path.name, AUDIO_FILE>>,
     filter_complex |-> FilterComplex(srt_path, ForceStyle(subtitle_style)),
     map |-> <<"dimmed", "1:a:0">>,
     shortest |-> TRUE,
     output |-> output_path]

\* lines 229-246: the ffmpeg command
FfmpegCmd(video_path, srt_path, output_path, subtitle_style) ==
    [inputs |-> <<video_path.name, AUDIO_FILE>>,
     filter_complex |-> FilterComplex(srt_path, ForceStyle(subtitle_style)),
     map |-> <<"v", "1:a:0">>,
     shortest |-> TRUE,
     output |-> output_path]

\* generate_voice_clone's validation (src/xtts.py:9-11)
VoiceTextOk(text) == text.some /\ Split(text.val) # <<>>

(***************************************************************************)
(* The orchestrator: steps.  Each request r runs generate_voice            *)
(* (src/main.py) or calls create_video_with_audio directly; a step is one  *)
(* access to the shared files or the clock together with the local code    *)
(* around it.                                                              *)
(***************************************************************************)
Raise(r, e, next) ==
    /\ err' = [err EXCEPT ![r] = e]
    /\ pc' = [pc EXCEPT ![r] = next]

SrtOf(r) == srtFiles[loc[r].timestamp]

\* a request arrives.  generate_voice is an async handler that never awaits, so
\* on one event loop it runs to completion before the next HTTP request starts.
Begin(r) ==
    /\ pc[r] = "idle"
    /\ \E a \in Args :
        /\ (a.via = "http" /\ sameLoop) =>
              \A o \in Reqs \ {r} : req[o].via = "http" => pc[o] \in Finished
        /\ req' = [req EXCEPT ![r] = a]
        /\ pc' = [pc EXCEPT ![r] = IF a.via = "http" THEN "voice" ELSE "check"]
    /\ UNCHANGED <<loc, err, audioFile, srtFiles, outFiles, videoDir, now, sameLoop, hist,
                 timeVars, autoVars>>

\* generate_voice_clone (src/xtts.py:5-28)
Voice(r) ==
    /\ pc[r] = "voice"
    /\ IF ~VoiceTextOk(req[r].text)
       THEN /\ pc' = [pc EXCEPT ![r] = "rejected"]
            /\ UNCHANGED audioFile
       ELSE \E ok \in BOOLEAN :
              IF ok
              THEN \E d \in TtsDurations :
                     /\ audioFile' = [exists |-> TRUE, owner |-> r, dur |-> d]
                     /\ pc' = [pc EXCEPT ![r] = "check"]
              ELSE /\ pc' = [pc EXCEPT ![r] = "rejected"]
                   /\ UNCHANGED audioFile
    /\ UNCHANGED <<req, loc, err, srtFiles, outFiles, videoDir, now, sameLoop, hist,
                 timeVars, autoVars>>

\* create_video_with_audio, lines 143-147
Check(r) ==
    /\ pc[r] = "check"
    /\ LET e == CheckRequest(audioFile.exists, req[r].text, req[r].subtitles)
       IN  IF e # NoErr THEN Raise(r, e, "failed")
           ELSE pc' = [pc EXCEPT ![r] = "pick"] /\ UNCHANGED err
    /\ UNCHANGED <<req, loc, audioFile, srtFiles, outFiles, videoDir, now, sameLoop, hist,
                 timeVars, autoVars>>

\* line 149
Pick(r) ==
    /\ pc[r] = "pick"
    /\ \E o \in _pick_random_video(videoDir) :
         IF o.err # NoErr
         THEN Raise(r, o.err, "failed") /\ UNCHANGED <<loc, hist>>
         ELSE /\ loc' = [loc EXCEPT ![r].video_path = o.path]
              /\ hist' = [hist EXCEPT ![r].picked = TRUE]
              /\ pc' = [pc EXCEPT ![r] = "probe"]
              /\ UNCHANGED err
    /\ UNCHANGED <<req, audioFile, srtFiles, outFiles, videoDir, now, sameLoop,
                 timeVars, autoVars>>

\* line 150: ffprobe on AUDIO_FILE
Probe(r) ==
    /\ pc[r] = "probe"
    /\ \E ok \in BOOLEAN :
         /\ ok => audioFile.exists
         /\ IF ok
            THEN /\ loc' = [loc EXCEPT ![r].audio_duration = audioFile.dur]
                 /\ hist' = [hist EXCEPT ![r].tools = TRUE, ![r].probed = audioFile.owner]
                 /\ pc' = [pc EXCEPT ![r] = "subs"]
                 /\ UNCHANGED err
            ELSE /\ Raise(r, Exc("CalledProcessError", "ffprobe", "probe"), "failed")
                 /\ hist' = [hist EXCEPT ![r].tools = TRUE]
                 /\ UNCHANGED loc
    /\ UNCHANGED <<req, audioFile, srtFiles, outFiles, videoDir, now, sameLoop,
                 timeVars, autoVars>>

\* lines 154-166: the timestamp, the caption file, the output path
Subs(r) ==
    /\ pc[r] = "subs"
    /\ LET timestamp == now
           track == CaptionTrack(req[r].text, req[r].subtitles, loc[r].audio_duration)
       IN  IF track.err # NoErr
           THEN /\ loc' = [loc EXCEPT ![r].timestamp = timestamp]
                /\ Raise(r, track.err, "cleanupErr")
                /\ UNCHANGED <<srtFiles, hist>>
           ELSE \E written \in BOOLEAN :
                  /\ srtFiles' = [srtFiles EXCEPT ![timestamp] =
                        [exists |-> TRUE, owner |-> r,
                         cues |-> IF written THEN track.cues ELSE <<>>]]
                  /\ hist' = [hist EXCEPT ![r].created = TRUE]
                  /\ IF written
                     THEN /\ loc' = [loc EXCEPT ![r].timestamp = timestamp,
                                                ![r].output_path = timestamp]
                          /\ pc' = [pc EXCEPT ![r] = "encode"]
                          /\ UNCHANGED err
                     ELSE /\ loc' = [loc EXCEPT ![r].timestamp = timestamp]
                          /\ Raise(r, Exc("OSError", "write failed", "subs"), "cleanupErr")
    /\ UNCHANGED <<req, audioFile, outFiles, videoDir, now, sameLoop,
                 timeVars, autoVars>>

\* lines 216-254: the command is built and ffmpeg starts; it opens the caption
\* file and the audio
EncodeStart(r) ==
    /\ pc[r] = "encode"
    /\ loc' = [loc EXCEPT ![r].cmd =
                  FfmpegCmd(loc[r].video_path, loc[r].timestamp, loc[r].output_path, "modern")]
    /\ hist' = [hist EXCEPT ![r].tools = TRUE, ![r].encoder = TRUE,
                            ![r].srtSeen = SrtOf(r),
                            ![r].muxed = IF audioFile.exists THEN audioFile.owner ELSE "none"]
    /\ pc' = [pc EXCEPT ![r] = "encoding"]
    /\ UNCHANGED <<req, err, audioFile, srtFiles, outFiles, videoDir, now, sameLoop,
                 timeVars, autoVars>>

\* line 254: ffmpeg ends
EncodeEnd(r) ==
    /\ pc[r] = "encoding"
    /\ \E ok \in BOOLEAN :
         /\ ok => hist[r].srtSeen.exists /\ hist[r].muxed # "none"
         /\ IF ok
            THEN /\ outFiles' = [outFiles EXCEPT ![loc[r].output_path] = r]
                 /\ pc' = [pc EXCEPT ![r] = "cleanupOk"]
                 /\ UNCHANGED err
            ELSE /\ Raise(r, Exc("CalledProcessError", "ffmpeg", "encode"), "cleanupErr")
                 /\ UNCHANGED outFiles
    /\ UNCHANGED <<req, loc, audioFile, srtFiles, videoDir, now, sameLoop, hist,
                 timeVars, autoVars>>

\* line 257
CleanupOk(r) ==
    /\ pc[r] = "cleanupOk"
    /\ pc' = [pc EXCEPT ![r] = IF SrtOf(r).exists THEN "removeOk" ELSE "done"]
    /\ UNCHANGED <<req, loc, err, audioFile, srtFiles, outFiles, videoDir, now, sameLoop, hist,
                 timeVars, autoVars>>

\* line 258, then the return of line 261
RemoveOk(r) ==
    /\ pc[r] = "removeOk"
    /\ IF SrtOf(r).exists
       THEN /\ srtFiles' = [srtFiles EXCEPT ![loc[r].timestamp] = AbsentFile]
            /\ pc' = [pc EXCEPT ![r] = "done"]
            /\ UNCHANGED err
       ELSE /\ Raise(r, Exc("FileNotFoundError", "remove", "cleanup"), "cleanupErr")
            /\ UNCHANGED srtFiles
    /\ UNCHANGED <<req, loc, audioFile, outFiles, videoDir, now, sameLoop, hist,
                 timeVars, autoVars>>

\* line 265
CleanupErr(r) ==
    /\ pc[r] = "cleanupErr"
    /\ pc' = [pc EXCEPT ![r] =
                 IF loc[r].timestamp # -1 /\ SrtOf(r).exists THEN "removeErr" ELSE "failed"]
    /\ UNCHANGED <<req, loc, err, audioFile, srtFiles, outFiles, videoDir, now, sameLoop, hist,
                 timeVars, autoVars>>

RemoveErrSkipped(r) ==
    /\ pc[r] = "removeErr"
    /\ pc' = [pc EXCEPT ![r] = "failed"]
    /\ UNCHANGED <<req, loc, err, audioFile, srtFiles, outFiles, videoDir, now, sameLoop, hist,
                 timeVars, autoVars>>

\* line 266, then the raise of line 267
RemoveErr(r) ==
    /\ pc[r] = "removeErr"
    /\ IF SrtOf(r).exists
       THEN /\ srtFiles' = [srtFiles EXCEPT ![loc[r].timestamp] = AbsentFile]
            /\ UNCHANGED err
       ELSE /\ err' = [err EXCEPT ![r] = Exc("FileNotFoundError", "remove", "cleanup")]
            /\ UNCHANGED srtFiles
    /\ pc' = [pc EXCEPT ![r] = "failed"]
    /\ UNCHANGED <<req, loc, audioFile, outFiles, videoDir, now, sameLoop, hist,
                 timeVars, autoVars>>

\* the wall clock reaches the next second
Tick ==
    /\ now < MaxClock
    /\ now' = now + 1
    /\ UNCHANGED <<pc, req, loc, err, audioFile, srtFiles, outFiles, videoDir, sameLoop, hist,
                 timeVars, autoVars>>

(***************************************************************************)
(* Specifications.                                                         *)
(***************************************************************************)
OrchIdle ==
    /\ pc = [r \in Reqs |-> "off"]
    /\ req = [r \in Reqs |-> NoArgs]
    /\ loc = [r \in Reqs |-> NoLocals]
    /\ err = [r \in Reqs |-> NoErr]
    /\ hist = [r \in Reqs |-> NoHist]
    /\ audioFile = AbsentAudio
    /\ srtFiles = [t \in 0..MaxClock |-> AbsentFile]
    /\ outFiles = [t \in 0..MaxClock |-> "none"]
    /\ videoDir = [exists |-> FALSE, files |-> {}]
    /\ now = 0
    /\ sameLoop = FALSE

Init ==
    /\ TimeIdle /\ AutoIdle
    /\ pc = [r \in Reqs |-> "idle"]
    /\ req = [r \in Reqs |-> NoArgs]
    /\ loc = [r \in Reqs |-> NoLocals]
    /\ err = [r \in Reqs |-> NoErr]
    /\ hist = [r \in Reqs |-> NoHist]
    /\ audioFile \in {AbsentAudio, [exists |-> TRUE, owner |-> "earlier", dur |-> 3 * Unit]}
    /\ srtFiles = [t \in 0..MaxClock |-> AbsentFile]
    /\ outFiles = [t \in 0..MaxClock |-> "none"]
    /\ videoDir \in DirStates
    /\ now = 0
    /\ sameLoop \in BOOLEAN

Next ==
    \/ \E r \in Reqs :
         \/ Begin(r) \/ Voice(r) \/ Check(r) \/ Pick(r) \/ Probe(r) \/ Subs(r)
         \/ EncodeStart(r) \/ EncodeEnd(r)
         \/ CleanupOk(r) \/ RemoveOk(r) \/ CleanupErr(r) \/ RemoveErr(r)
    \/ Tick


Spec == Init /\ [][Next]_vars

InitTime ==
    /\ seconds \in TimeInputs /\ stage = "in" /\ rendered = NoClock
    /\ readBack = 0 /\ rendered2 = NoClock
    /\ AutoIdle /\ OrchIdle

NextTime == FormatTime \/ ParseBack \/ FormatAgain

SpecTime == InitTime /\ [][NextTime]_vars

InitAuto ==
    /\ autoText \in TextInputs /\ autoDur \in DurationInputs /\ autoOut = NotCalled
    /\ TimeIdle /\ OrchIdle

NextAuto == GenerateAuto

SpecAuto == InitAuto /\ [][NextAuto]_vars


(***************************************************************************)
(* Properties.                                                             *)
(***************************************************************************)
PastCheck(r) == pc[r] \notin {"idle", "voice", "check", "rejected"}
PastPick(r) == PastCheck(r) /\ pc[r] # "pick" /\ err[r].at # "check"
HoldsCaptionPath(r) ==
    /\ pc[r] \in {"encode", "encoding", "cleanupOk", "removeOk", "cleanupErr", "removeErr"}
    /\ loc[r].timestamp # -1
BothAbsent(r) == ~req[r].text.some /\ ~req[r].subtitles.some
BothPresent(r) == req[r].text.some /\ req[r].subtitles.some
Untouched(r) == ~hist[r].picked /\ ~hist[r].tools /\ ~hist[r].created /\ ~hist[r].encoder

\* C1: a call that created its caption file finishes (returns or raises) with
\* that file removed, whichever way it ends.
C1_CaptionFileRemoved ==
    [][\A r \in Reqs :
          (pc[r] \notin Finished /\ pc'[r] \in Finished /\ hist'[r].created)
              => ~srtFiles'[loc'[r].timestamp].exists]_vars

C1_Witness ==
    \E r1, r2 \in Reqs :
        /\ pc[r1] = "done" /\ hist[r1].created
        /\ pc[r2] = "failed" /\ hist[r2].created /\ err[r2].kind = "CalledProcessError"

\* C2: two requests that hold a caption path at the same time hold different
\* paths, and the caption file an encoder opens is the one its own request wrote.
C2_DistinctCaptionFiles ==
    /\ \A r1, r2 \in Reqs :
          (r1 # r2 /\ HoldsCaptionPath(r1) /\ HoldsCaptionPath(r2))
              => loc[r1].timestamp # loc[r2].timestamp
    /\ \A r \in Reqs : hist[r].encoder => hist[r].srtSeen.owner = r

\* C3: an HTTP request probes and muxes the audio generated from its own text,
\* and two requests never write the same output video file.
C3_OwnAudioAndOutput ==
    /\ \A r \in Reqs :
          req[r].via = "http" =>
              /\ hist[r].probed \in {"none", r}
              /\ hist[r].muxed \in {"none", r}
    /\ \A r1, r2 \in Reqs :
          (r1 # r2 /\ loc[r1].output_path # -1 /\ loc[r2].output_path # -1)
              => loc[r1].output_path # loc[r2].output_path


Abs(n) == IF n < 0 THEN -n ELSE n

\* C4: for a positive duration and N >= 1 tokens the auto builder writes N cues,
\* numbered 1..N, carrying the tokens in order; the first starts at 0, each ends
\* where the next starts, and the last ends at the total duration to within 1 ms
\* on the SRT clock.
C4_AutoCuesTile ==
    (autoOut.called /\ autoDur > 0 /\ Split(autoText) # <<>>) =>
        LET tokens == Split(autoText)
            N      == Len(tokens)
            cues   == autoOut.cues
        IN  /\ autoOut.raised = ""
            /\ Len(cues) = N
            /\ \A i \in 1..N : cues[i].index = i /\ cues[i].text = tokens[i]
            /\ ClockMillis(cues[1].start) = 0
            /\ \A i \in 1..(N - 1) : cues[i].end = cues[i + 1].start
            /\ Abs(ClockMillis(cues[N].end) - ClockMillis(_format_srt_time(autoDur))) <= 1

\* two different tokens, and a last cue whose end is 1 ms off the duration
C4_Witness ==
    /\ autoOut.called /\ autoDur > 0
    /\ Len(Split(autoText)) = 2
    /\ Split(autoText)[1] # Split(autoText)[2]
    /\ ClockMillis(autoOut.cues[2].end) # ClockMillis(_format_srt_time(autoDur))

\* C8: for a text with no tokens the auto builder writes exactly one cue, with
\* index 1, empty text, start 0 and the total duration as its end, and raises
\* no division error.
C8_EmptyTextOneCue ==
    (autoOut.called /\ Split(autoText) = <<>>) =>
        /\ autoOut.raised = ""
        /\ autoOut.cues = << [index |-> 1, start |-> NoClock,
                              end |-> _format_srt_time(autoDur), text |-> <<>>] >>

C8_Witness ==
    /\ autoOut.called /\ autoText = <<Space, Space>> /\ autoDur > Unit
    /\ Len(autoOut.cues) = 1

\* The truncation half of C10: the rendered clock, read back as seconds, is
\* not after t, and it is less than 1 ms before t.
C10_Truncates ==
    stage = "reformatted" =>
        /\ ClockMillis(rendered) \div MillisPerSecond = FTrunc(seconds)
        /\ rendered.mm < SecondsPerMinute /\ rendered.ss < SecondsPerMinute
        /\ rendered.mmm < MillisPerSecond
        /\ readBack <= seconds
        /\ FMod(seconds, 1) * MillisPerSecond - rendered.mmm * Unit < Unit

\* C10 in full: truncation, and the same clock after parsing the rendered
\* clock back to seconds and rendering it again.
C10_TruncatesAndRoundTrips ==
    /\ C10_Truncates
    /\ stage = "reformatted" => rendered2 = rendered


\* what section 4.1 calls a malformed explicit list
InvalidCues(l) ==
    \E i \in 1..Len(l) :
        \/ l[i].end <= l[i].start
        \/ i > 1 /\ l[i].start < l[i - 1].start

\* C5: an explicit cue list with a cue whose end <= start, or whose starts are
\* not in non-decreasing order, is rejected: it is never serialized and no
\* caption track reaches the encoder.
C5_InvalidCuesRejected ==
    \A r \in Reqs :
        (req[r].subtitles.some /\ InvalidCues(req[r].subtitles.val))
            => ~hist[r].created /\ ~hist[r].encoder

HasVideo(dir) == \E f \in dir.files : f.ext \in {".mp4", ".MP4", ".mov", ".MOV", ".mkv", ".MKV"}
MissingDirectoryKind ==
    (CHOOSE o \in _pick_random_video([exists |-> FALSE, files |-> {}]) : TRUE).err.kind

RECURSIVE StageNames(_)
StageNames(graph) ==
    IF graph = <<>> THEN <<>>
    ELSE [i \in 1..Len(graph[1].filters) |-> graph[1].filters[i].name]
             \o StageNames(Tail(graph))

\* every chain reads the source stream or the label the chain before it wrote;
\* the last chain is the caption burn-in of this request's caption file and
\* its label is the one mapped to the output video
WellLinked(r) ==
    LET cmd == loc[r].cmd
        g   == cmd.filter_complex
    IN  /\ g[1].in = "0:v"
        /\ \A i \in 2..Len(g) : g[i].in = g[i - 1].out
        /\ g[Len(g)].filters = << Stage("subtitles", ForceStyle("modern"), loc[r].timestamp) >>
        /\ cmd.map[1] = g[Len(g)].out

\* C9 as stated: scale, crop, pixel format, brightness, caption burn-in.
C9_FormatBeforeBrightness ==
    \A r \in Reqs :
        hist[r].encoder =>
            /\ StageNames(loc[r].cmd.filter_complex)
                  = <<"scale", "crop", "format", "eq", "subtitles">>
            /\ WellLinked(r)

\* C9 as amended: the stages are scale, crop, brightness, pixel format, caption
\* burn-in, in that order (the pixel format is normalized after the brightness
\* stage); the burn-in is the last stage and its label is the mapped one.
C9_BrightnessBeforeFormat ==
    \A r \in Reqs :
        hist[r].encoder =>
            /\ StageNames(loc[r].cmd.filter_complex)
                  = <<"scale", "crop", "eq", "format", "subtitles">>
            /\ WellLinked(r)

C9_Witness == \E r \in Reqs : pc[r] = "encoding" /\ loc[r].cmd # NoCmd


====
